---- MODULE Spec2Model ----
(***************************************************************************)
(* Model of the UMX document-pack tools:                                   *)
(*   scripts/generate_doc_pack.py  (the decision engine and its main)      *)
(*   scripts/run_umx_flow.py       (the flow runner that calls it)         *)
(*                                                                         *)
(* Text values are sequences of one-character strings, so that strip(),    *)
(* lower() and the substring tests of the code are computed, not assumed.  *)
(***************************************************************************)
EXTENDS Integers, Sequences, FiniteSets, TLC

VARIABLES
    args,            \* generate_doc_pack: the parsed command line (argparse Namespace)
    input_file,      \* the parsed JSON mapping held by the --input file
    combo_arg,       \* main: combo_arg
    mode_arg,        \* main: mode_arg
    req,             \* main: req, the normalized requirement record
    quality_issues,  \* main: quality_issues
    scores,          \* main: scores, the table returned by score_combos
    primary_code,    \* main: primary_code
    secondary_code,  \* main: secondary_code
    complexity,      \* main: complexity (the tier)
    mode,            \* main: mode (the resolved document mode)
    docs,            \* main: docs, the file names of the plan
    writable_output, \* main: writable_output, the root ensure_writable_output_root returned
    gpc,             \* position of generate_doc_pack.main
    gerror,          \* why generate_doc_pack ended in an error ("" when it did not)
    gen_stdout,      \* what generate_doc_pack printed, in order
    flow_args,       \* run_umx_flow: the parsed command line (argparse Namespace)
    overrides,       \* run_umx_flow.main: overrides, the dict parse_command returned
    path_choice,     \* run_umx_flow.main: path_choice
    flow_req,        \* run_umx_flow.main: req, the three texts
    config,          \* run_umx_flow.main: config (FlowConfig)
    fpc,             \* position of run_umx_flow.main ("none": the flow runner is not run)
    ferror,          \* why run_umx_flow ended in an error ("" when it did not)
    flow_stdout,     \* what run_umx_flow printed, in order
    perm,            \* the filesystem: what each output root lets a process do
    fs_log           \* the filesystem: every operation done so far, in order

vars == <<args, input_file, combo_arg, mode_arg, req, quality_issues, scores,
          primary_code, secondary_code, complexity, mode, docs,
          writable_output, gpc, gerror, gen_stdout,
          flow_args, overrides, path_choice, flow_req, config, fpc, ferror,
          flow_stdout, perm, fs_log>>

\* the variables of run_umx_flow.main
FlowVars == <<flow_args, overrides, path_choice, flow_req, config, fpc, ferror,
              flow_stdout>>

(***************************************************************************)
(* Bounds of the model.                                                    *)
(***************************************************************************)
MaxTeam == 9
MaxModules == 11
MaxScore == 3

(***************************************************************************)
(* Constant tables of generate_doc_pack.py.                                *)
(***************************************************************************)
LEVEL_MAP == [low |-> 0, medium |-> 1, high |-> 2]
SPEED_MAP == [slow |-> 0, normal |-> 1, fast |-> 2]
LEVELS == {"low", "medium", "high"}
SPEEDS == {"slow", "normal", "fast"}
DESIGN_VALUES == {"none", "wireframe", "figma"}
MODE_VALUES == {"minimal", "standard", "full", "single-file"}
COMBO_VALUES == {"c1", "c2", "c3", "c4", "c5", "c6"}
TIERS == {"S", "M", "L", "XL"}

\* Python's None
None == "None"

\* Python's order of the combo codes as strings ("c1" < "c2" < ... < "c6").
CodeRank == [c1 |-> 1, c2 |-> 2, c3 |-> 3, c4 |-> 4, c5 |-> 5, c6 |-> 6]

Max(a, b) == IF a >= b THEN a ELSE b

\* the common starting score of every combo
BASELINE == 2

\* `if cond: score[k] += d`
Bonus(cond, d) == IF cond THEN d ELSE 0

(***************************************************************************)
(* score_combos                                                            *)
(***************************************************************************)
\* the bonuses every rule adds to (or takes from) each combo
score_deltas(r) ==
    LET team == r.team_size
        modules == r.module_count
        ui == LEVEL_MAP[r.ui_priority]
        backend == LEVEL_MAP[r.backend_complexity]
        domain == LEVEL_MAP[r.domain_complexity]
        compliance == LEVEL_MAP[r.compliance_level]
        design == r.design_source
        separation == r.frontend_backend_separation
        fast == r.need_fast_validation
        speed == SPEED_MAP[r.iteration_speed]
    IN [k \in COMBO_VALUES |->
          CASE k = "c1" ->
                 Bonus(team <= 2, 2) + Bonus(modules <= 3, 2) + Bonus(fast, 2)
                   + Bonus(design \in {"none", "wireframe"}, 1)
                   + Max(0, 1 - domain) + Bonus(compliance >= 1, -1)
            [] k = "c2" ->
                 Bonus(2 <= team /\ team <= 5, 2)
                   + Bonus(3 <= modules /\ modules <= 8, 2)
                   + Bonus(speed >= 1, 2) + Bonus(domain >= 1, 1) + Bonus(fast, 1)
            [] k = "c3" ->
                 Bonus(separation, 3) + Bonus(backend >= 1, 2)
                   + Bonus(modules >= 4, 2) + Bonus(compliance >= 1, 1)
            [] k = "c4" ->
                 Bonus(design = "figma", 4) + Bonus(ui = 2, 3) + Bonus(fast, 1)
                   + Bonus(domain = 2, -1)
            [] k = "c5" ->
                 Bonus(fast, 3) + Bonus(team <= 3, 2) + Bonus(speed = 2, 2)
                   + Bonus(modules <= 5, 1) + Bonus(domain = 2, -1)
            [] k = "c6" ->
                 Bonus(domain = 2, 4) + Bonus(compliance >= 1, 2)
                   + Bonus(team >= 5, 2) + Bonus(modules >= 6, 2) + Bonus(fast, -1)]

\* faulty variant: the table starts at 0, the baseline is forgotten
score_combos_no_baseline(r) == score_deltas(r)

\* faulty variant: the fast-validation bonus of c5 is 4 instead of 3
score_combos_c5_fast_bonus(r) ==
    [k \in COMBO_VALUES |->
        BASELINE + score_deltas(r)[k]
        + (IF k = "c5" /\ r.need_fast_validation THEN 1 ELSE 0)]

\* `score = {k: 2 for k in COMBO_VALUES}`, then the rules
score_combos(r) == [k \in COMBO_VALUES |-> BASELINE + score_deltas(r)[k]]

(***************************************************************************)
(* complexity_level                                                        *)
(***************************************************************************)
\* faulty variant: the top team band starts above 9 instead of above 8
team_band_top_above_9(team) ==
    IF team <= 2 THEN 0
    ELSE IF team <= 5 THEN 1
    ELSE IF team <= 9 THEN 2
    ELSE 3

\* the banded contribution of team_size
team_band(team) ==
    IF team <= 2 THEN 0
    ELSE IF team <= 5 THEN 1
    ELSE IF team <= 8 THEN 2
    ELSE 3

\* faulty variant: exclusive upper bounds on the module bands
module_band_exclusive(modules) ==
    IF modules < 3 THEN 0
    ELSE IF modules < 6 THEN 1
    ELSE IF modules < 10 THEN 2
    ELSE 3

\* the banded contribution of module_count
module_band(modules) ==
    IF modules <= 3 THEN 0
    ELSE IF modules <= 6 THEN 1
    ELSE IF modules <= 10 THEN 2
    ELSE 3

\* the tier of a total
tier_of(score) ==
    IF score <= 4 THEN "S"
    ELSE IF score <= 7 THEN "M"
    ELSE IF score <= 10 THEN "L"
    ELSE "XL"

\* faulty variant: compliance is taken off the total instead of added
complexity_level_minus_compliance(r) ==
    tier_of(team_band(r.team_size) + module_band(r.module_count)
            + LEVEL_MAP[r.domain_complexity] - LEVEL_MAP[r.compliance_level]
            + LEVEL_MAP[r.backend_complexity]
            + (IF r.frontend_backend_separation THEN 1 ELSE 0))

complexity_level(r) ==
    LET team == r.team_size
        modules == r.module_count
        domain == LEVEL_MAP[r.domain_complexity]
        compliance == LEVEL_MAP[r.compliance_level]
        backend == LEVEL_MAP[r.backend_complexity]
        separation == IF r.frontend_backend_separation THEN 1 ELSE 0
        score == team_band(team) + module_band(modules)
                 + domain + compliance + backend + separation
    IN tier_of(score)

(***************************************************************************)
(* recommend_mode                                                          *)
(***************************************************************************)
\* faulty variant: the fast-validation rule forgets to ask for tier S
recommend_mode_fast_any_tier(r, tier, forced_mode) ==
    IF forced_mode \in MODE_VALUES THEN forced_mode
    ELSE IF r.need_fast_validation THEN "minimal"
    ELSE IF tier = "XL" \/ LEVEL_MAP[r.compliance_level] = 2 THEN "full"
    ELSE "standard"

\* faulty variant: full is recommended for tier XL only, the highest
\* compliance level is ignored
recommend_mode_full_only_xl(r, tier, forced_mode) ==
    IF forced_mode \in MODE_VALUES THEN forced_mode
    ELSE IF tier = "S" /\ r.need_fast_validation THEN "minimal"
    ELSE IF tier = "XL" THEN "full"
    ELSE "standard"

recommend_mode(r, tier, forced_mode) ==
    IF forced_mode \in MODE_VALUES THEN forced_mode
    ELSE IF tier = "S" /\ r.need_fast_validation THEN "minimal"
    ELSE IF tier = "XL" \/ LEVEL_MAP[r.compliance_level] = 2 THEN "full"
    ELSE "standard"

(***************************************************************************)
(* select_combo                                                            *)
(***************************************************************************)
\* sorted(scores.items(), key=lambda item: (-item[1], item[0])): a comes
\* before b when its key is smaller.
\* faulty variant: ties broken by descending code
KeyLess_desc_code(sc, a, b) ==
    \/ sc[a] > sc[b]
    \/ sc[a] = sc[b] /\ CodeRank[a] > CodeRank[b]

KeyLess(sc, a, b) ==
    \/ sc[a] > sc[b]
    \/ sc[a] = sc[b] /\ CodeRank[a] < CodeRank[b]

\* The list whose i-th entry is the code that `before[code] = i - 1` codes
\* come before.
ListByRank(before) ==
    [i \in 1..Cardinality(DOMAIN before) |->
        CHOOSE a \in DOMAIN before : before[a] = i - 1]

\* The codes of the sorted list, in order.
ordered(sc) ==
    ListByRank([a \in DOMAIN sc |->
                  Cardinality({b \in DOMAIN sc : KeyLess(sc, b, a)})])

\* faulty variant: a forced combo is honoured only when it is not ranked last
resolve_unless_last(ord, sc, forced_combo) ==
    IF forced_combo \in COMBO_VALUES /\ ord[Len(ord)] # forced_combo
    THEN <<forced_combo,
           IF Len(ord) > 0 /\ ord[1] # forced_combo THEN ord[1]
           ELSE IF Len(ord) > 1 THEN ord[2] ELSE None>>
    ELSE <<ord[1],
           IF Len(ord) > 1 /\ sc[ord[1]] - sc[ord[2]] <= 2
           THEN ord[2] ELSE None>>

\* faulty variant: the margin of the secondary is 3 instead of 2
resolve_wide_margin(ord, sc, forced_combo) ==
    IF forced_combo \in COMBO_VALUES
    THEN <<forced_combo,
           IF Len(ord) > 0 /\ ord[1] # forced_combo THEN ord[1]
           ELSE IF Len(ord) > 1 THEN ord[2] ELSE None>>
    ELSE <<ord[1],
           IF Len(ord) > 1 /\ sc[ord[1]] - sc[ord[2]] <= 3
           THEN ord[2] ELSE None>>

\* faulty variant: with a forced combo the second-ranked code is always the
\* secondary
resolve_forced_second(ord, sc, forced_combo) ==
    IF forced_combo \in COMBO_VALUES
    THEN <<forced_combo, IF Len(ord) > 1 THEN ord[2] ELSE None>>
    ELSE <<ord[1],
           IF Len(ord) > 1 /\ sc[ord[1]] - sc[ord[2]] <= 2
           THEN ord[2] ELSE None>>

\* lines 342-350: <<primary, secondary>> from the sorted codes
resolve(ord, sc, forced_combo) ==
    IF forced_combo \in COMBO_VALUES
    THEN <<forced_combo,
           IF Len(ord) > 0 /\ ord[1] # forced_combo THEN ord[1]
           ELSE IF Len(ord) > 1 THEN ord[2] ELSE None>>
    ELSE <<ord[1],
           IF Len(ord) > 1 /\ sc[ord[1]] - sc[ord[2]] <= 2
           THEN ord[2] ELSE None>>

\* <<primary, secondary>>
select_combo(sc, forced_combo) == resolve(ordered(sc), sc, forced_combo)

(***************************************************************************)
(* Text: Python str as a sequence of one-character strings. A character    *)
(* outside ASCII is written by its code point: "U+5F85" is one character.  *)
(***************************************************************************)
UPPER == <<"A","B","C","D","E","F","G","H","I","J","K","L","M",
           "N","O","P","Q","R","S","T","U","V","W","X","Y","Z">>
LOWER == <<"a","b","c","d","e","f","g","h","i","j","k","l","m",
           "n","o","p","q","r","s","t","u","v","w","x","y","z">>
DIGITS == <<"0","1","2","3","4","5","6","7","8","9">>
WHITESPACE == {" ", "\t", "\n"}

\* str.lower(), one character
LowerChar(c) ==
    IF \E i \in 1..Len(UPPER) : UPPER[i] = c
    THEN LOWER[CHOOSE i \in 1..Len(UPPER) : UPPER[i] = c]
    ELSE c

\* str.lower()
lower(s) == [i \in 1..Len(s) |-> LowerChar(s[i])]

\* str.strip(): drop leading and trailing whitespace
strip(s) ==
    LET keep == {i \in 1..Len(s) : s[i] \notin WHITESPACE}
    IN IF keep = {} THEN <<>>
       ELSE LET first == CHOOSE i \in keep : \A j \in keep : i <= j
                last == CHOOSE i \in keep : \A j \in keep : j <= i
            IN SubSeq(s, first, last)

\* `t in s` for strings
Contains(s, t) ==
    \E i \in 1..(Len(s) - Len(t) + 1) : SubSeq(s, i, i + Len(t) - 1) = t

\* value of a decimal digit character
DigitValue(c) == (CHOOSE i \in 1..Len(DIGITS) : DIGITS[i] = c) - 1

IsDigit(c) == \E i \in 1..Len(DIGITS) : DIGITS[i] = c

\* decimal text of a natural number
RECURSIVE NatStr(_)
NatStr(n) ==
    IF n < 10 THEN <<DIGITS[n + 1]>>
    ELSE Append(NatStr(n \div 10), DIGITS[(n % 10) + 1])

\* str(int)
IntStr(n) == IF n < 0 THEN <<"-">> \o NatStr(-n) ELSE NatStr(n)

\* value of a digit string (non-empty, digits only)
RECURSIVE DigitsValue(_)
DigitsValue(s) ==
    IF Len(s) = 0 THEN 0
    ELSE 10 * DigitsValue(SubSeq(s, 1, Len(s) - 1)) + DigitValue(s[Len(s)])

(***************************************************************************)
(* Values of the parsed JSON mapping (json.loads), tagged by Python type:  *)
(*   absent  the key is not in the mapping                                 *)
(*   null    None                                                          *)
(*   bool    b                                                             *)
(*   int     n                                                             *)
(*   float   n tenths (2.5 is n = 25)                                      *)
(*   inf     float infinity, sign in n (json.loads reads 1e999, Infinity)  *)
(*   nan     float NaN                                                     *)
(*   str     s                                                             *)
(*   list, dict   a non-scalar (empty) value                               *)
(***************************************************************************)
Raw(t, b, n, s) == [t |-> t, b |-> b, n |-> n, s |-> s]
JAbsent == Raw("absent", FALSE, 0, <<>>)
JNull == Raw("null", FALSE, 0, <<>>)
JBool(b) == Raw("bool", b, 0, <<>>)
JInt(n) == Raw("int", FALSE, n, <<>>)
JFloat(tenths) == Raw("float", FALSE, tenths, <<>>)
JInf(sign) == Raw("inf", FALSE, sign, <<>>)
JNan == Raw("nan", FALSE, 0, <<>>)
JStr(s) == Raw("str", FALSE, 0, s)
JList == Raw("list", FALSE, 0, <<>>)
JDict == Raw("dict", FALSE, 0, <<>>)

\* str(value)
PyStr(v) ==
    CASE v.t = "null" -> <<"N","o","n","e">>
      [] v.t = "bool" -> IF v.b THEN <<"T","r","u","e">> ELSE <<"F","a","l","s","e">>
      [] v.t = "int" -> IntStr(v.n)
      [] v.t = "float" ->
            LET a == IF v.n < 0 THEN -v.n ELSE v.n
            IN (IF v.n < 0 THEN <<"-">> ELSE <<>>)
               \o NatStr(a \div 10) \o <<".">> \o NatStr(a % 10)
      [] v.t = "inf" -> IF v.n < 0 THEN <<"-","i","n","f">> ELSE <<"i","n","f">>
      [] v.t = "nan" -> <<"n","a","n">>
      [] v.t = "str" -> v.s
      [] v.t = "list" -> <<"[","]">>
      [] v.t = "dict" -> <<"{","}">>

\* Result of a call that may raise: exc = "" when it returned n.
Returned(n) == [exc |-> "", n |-> n]
Raised(e) == [exc |-> e, n |-> 0]

\* int(str): optional whitespace, optional sign, decimal digits
ParseInt(s) ==
    LET t == strip(s)
        signed == Len(t) > 0 /\ t[1] \in {"+", "-"}
        body == IF signed THEN Tail(t) ELSE t
    IN IF Len(body) > 0 /\ \A i \in 1..Len(body) : IsDigit(body[i])
       THEN Returned(IF signed /\ t[1] = "-" THEN -DigitsValue(body)
                     ELSE DigitsValue(body))
       ELSE Raised("ValueError")

\* int(value)
PyInt(v) ==
    CASE v.t \in {"absent", "null", "list", "dict"} -> Raised("TypeError")
      [] v.t = "bool" -> Returned(IF v.b THEN 1 ELSE 0)
      [] v.t = "int" -> Returned(v.n)
      [] v.t = "float" ->
            Returned(IF v.n < 0 THEN -((-v.n) \div 10) ELSE v.n \div 10)
      [] v.t = "inf" -> Raised("OverflowError")
      [] v.t = "nan" -> Raised("ValueError")
      [] v.t = "str" -> ParseInt(v.s)

(***************************************************************************)
(* The normalizers                                                         *)
(***************************************************************************)
\* The enum tokens as text
TokenText ==
    [low |-> <<"l","o","w">>, medium |-> <<"m","e","d","i","u","m">>,
     high |-> <<"h","i","g","h">>,
     slow |-> <<"s","l","o","w">>, normal |-> <<"n","o","r","m","a","l">>,
     fast |-> <<"f","a","s","t">>,
     none |-> <<"n","o","n","e">>, wireframe |-> <<"w","i","r","e","f","r","a","m","e">>,
     figma |-> <<"f","i","g","m","a">>]

\* `text if text in values else default`, values a set of tokens
TokenOr(text, values, default) ==
    IF \E k \in values : TokenText[k] = text
    THEN CHOOSE k \in values : TokenText[k] = text
    ELSE default

\* to_int: TypeError and ValueError give the default, anything else propagates
to_int(value, default) ==
    LET r == PyInt(value)
    IN IF r.exc \in {"TypeError", "ValueError"} THEN Returned(default) ELSE r

\* value is None: the key is absent (dict.get gives None) or null
IsNone(value) == value.t \in {"absent", "null"}

normalize_level(value, default) ==
    IF IsNone(value) THEN default
    ELSE TokenOr(lower(strip(PyStr(value))), LEVELS, default)

normalize_speed(value, default) ==
    IF IsNone(value) THEN default
    ELSE TokenOr(lower(strip(PyStr(value))), SPEEDS, default)

normalize_design(value, default) ==
    IF IsNone(value) THEN default
    ELSE TokenOr(lower(strip(PyStr(value))), DESIGN_VALUES, default)

normalize_bool(value, default) ==
    IF value.t = "bool" THEN value.b
    ELSE IF value.t = "str"
         THEN LET lowered == lower(strip(value.s))
              IN IF lowered \in {<<"t","r","u","e">>, <<"1">>, <<"y","e","s">>, <<"y">>}
                 THEN TRUE
                 ELSE IF lowered \in {<<"f","a","l","s","e">>, <<"0">>, <<"n","o">>, <<"n">>}
                      THEN FALSE
                      ELSE default
         ELSE default

\* The default texts of load_requirements
NEW_PROJECT == <<"N","e","w"," ","P","r","o","j","e","c","t">>
GOAL_DEFAULT == <<"U+5F85","U+8865","U+5145","U+9879","U+76EE","U+76EE","U+6807">>
USERS_DEFAULT == <<"U+5F85","U+8865","U+5145","U+76EE","U+6807","U+7528","U+6237">>

\* `str(data.get(key, default)).strip() or default`
TextField(value, default) ==
    LET got == IF value.t = "absent" THEN default ELSE PyStr(value)
        text == strip(got)
    IN IF text = <<>> THEN default ELSE text

KEYS == {"project_name", "project_goal", "target_users", "team_size",
         "module_count", "ui_priority", "backend_complexity",
         "domain_complexity", "compliance_level", "design_source",
         "frontend_backend_separation", "need_fast_validation",
         "iteration_speed"}

\* Result of load_requirements: exc = "" and the record, or the exception.
NoReq ==
    [project_name |-> <<>>, project_goal |-> <<>>, target_users |-> <<>>,
     team_size |-> 0, module_count |-> 0,
     ui_priority |-> None, backend_complexity |-> None,
     domain_complexity |-> None, compliance_level |-> None,
     design_source |-> None, frontend_backend_separation |-> FALSE,
     need_fast_validation |-> FALSE, iteration_speed |-> None]

\* load_requirements on the parsed mapping data (json.loads of the file)
load_requirements(data) ==
    LET team == to_int(data["team_size"], 2)
        modules == to_int(data["module_count"], 3)
    IN IF team.exc # "" THEN [exc |-> team.exc, req |-> NoReq]
       ELSE IF modules.exc # "" THEN [exc |-> modules.exc, req |-> NoReq]
       ELSE [exc |-> "",
             req |->
               [project_name |-> TextField(data["project_name"], NEW_PROJECT),
                project_goal |-> TextField(data["project_goal"], GOAL_DEFAULT),
                target_users |-> TextField(data["target_users"], USERS_DEFAULT),
                team_size |-> Max(team.n, 1),
                module_count |-> Max(modules.n, 1),
                ui_priority |-> normalize_level(data["ui_priority"], "medium"),
                backend_complexity |-> normalize_level(data["backend_complexity"], "medium"),
                domain_complexity |-> normalize_level(data["domain_complexity"], "low"),
                compliance_level |-> normalize_level(data["compliance_level"], "low"),
                design_source |-> normalize_design(data["design_source"], "none"),
                frontend_backend_separation |->
                    normalize_bool(data["frontend_backend_separation"], FALSE),
                need_fast_validation |-> normalize_bool(data["need_fast_validation"], TRUE),
                iteration_speed |-> normalize_speed(data["iteration_speed"], "normal")]]

(***************************************************************************)
(* find_requirement_quality_issues                                         *)
(***************************************************************************)
placeholder_hints ==
    {<<"U+5F85","U+8865","U+5145">>, <<"t","o","d","o">>, <<"t","b","d">>,
     <<"t","o"," ","b","e"," ","d","e","t","e","r","m","i","n","e","d">>,
     <<"n","e","w"," ","p","r","o","j","e","c","t">>,
     <<"e","x","a","m","p","l","e">>, <<"U+793A","U+4F8B">>,
     <<"u","n","k","n","o","w","n">>, <<"U+672A","U+5B9A">>}

\* the keys of required_fields, in the order the loop visits them
required_fields == <<"project_name", "project_goal", "target_users">>

\* An issue string: which field it names, which message, and the raw text
\* the message quotes (only the placeholder-text message quotes it).
Issue(key, kind, raw) == [key |-> key, kind |-> kind, raw |-> raw]

\* faulty variant: the length check of project_goal comes before the
\* placeholder check
FieldIssues_short_first(r, key) ==
    LET raw == strip(r[key])
        lowered == lower(raw)
    IN IF raw = <<>> THEN <<Issue(key, "empty", <<>>)>>
       ELSE IF Contains(raw, <<"<">>) \/ Contains(raw, <<">">>)
            THEN <<Issue(key, "template", <<>>)>>
       ELSE IF key = "project_goal" /\ Len(raw) < 8
            THEN <<Issue("project_goal", "too_short", <<>>)>>
       ELSE IF \E token \in placeholder_hints : Contains(lowered, token)
            THEN <<Issue(key, "placeholder", raw)>>
       ELSE <<>>

\* One iteration of the loop body: the issues it appends for `key`.
FieldIssues(r, key) ==
    LET raw == strip(r[key])
        lowered == lower(raw)
    IN IF raw = <<>> THEN <<Issue(key, "empty", <<>>)>>
       ELSE IF Contains(raw, <<"<">>) \/ Contains(raw, <<">">>)
            THEN <<Issue(key, "template", <<>>)>>
       ELSE IF \E token \in placeholder_hints : Contains(lowered, token)
            THEN <<Issue(key, "placeholder", raw)>>
       ELSE IF key = "project_goal" /\ Len(raw) < 8
            THEN <<Issue("project_goal", "too_short", <<>>)>>
       ELSE <<>>

\* The loop over required_fields from position i, issues accumulated
RECURSIVE QualityLoop(_, _, _)
QualityLoop(r, i, issues) ==
    IF i > Len(required_fields) THEN issues
    ELSE QualityLoop(r, i + 1, issues \o FieldIssues(r, required_fields[i]))

find_requirement_quality_issues(r) == QualityLoop(r, 1, <<>>)

(***************************************************************************)
(* planned_docs and the document tables (file names)                       *)
(***************************************************************************)
BASELINE_DOCS == <<"00-epic-map.md", "01-feature-story-map.md", "02-core-spec.md">>
BASE_DOCS == <<"03-combo-decision.md", "04-milestone-plan.md", "05-ai-prompt-pack.md">>
COMBO_MIN_DOCS ==
    [c1 |-> <<"30-requirement-canvas.md", "31-prototype-brief.md">>,
     c2 |-> <<"30-iteration-slice.md", "31-iteration-backlog.md">>,
     c3 |-> <<"30-scenario-list.md", "31-api-contract-priority.md", "32-data-model.md">>,
     c4 |-> <<"30-ui-flow-map.md", "31-figma-to-prompt-map.md">>,
     c5 |-> <<"30-mvp-hypothesis.md", "31-feedback-loop.md">>,
     c6 |-> <<"30-domain-map.md", "31-ubiquitous-language.md", "32-service-boundary.md">>]
STANDARD_DOCS == <<"10-prd-lite.md", "11-architecture-lite.md", "12-api-spec.md",
                   "13-database-design.md", "14-risk-checklist.md">>
FULL_DOCS == <<"20-module-spec-index.md", "21-test-regression-plan.md",
               "22-ops-runbook.md", "23-change-log-governance.md">>
SINGLE_FILE_DOC == "00-single-file-pack.md"

\* faulty variant: the standard documents are left out of the full mode
planned_docs_standard_only(primary_combo, m) ==
    IF m = "single-file" THEN <<SINGLE_FILE_DOC>>
    ELSE BASELINE_DOCS \o BASE_DOCS \o COMBO_MIN_DOCS[primary_combo]
         \o (IF m = "standard" THEN STANDARD_DOCS ELSE <<>>)
         \o (IF m = "full" THEN FULL_DOCS ELSE <<>>)

planned_docs(primary_combo, m) ==
    IF m = "single-file" THEN <<SINGLE_FILE_DOC>>
    ELSE BASELINE_DOCS \o BASE_DOCS \o COMBO_MIN_DOCS[primary_combo]
         \o (IF m \in {"standard", "full"} THEN STANDARD_DOCS ELSE <<>>)
         \o (IF m = "full" THEN FULL_DOCS ELSE <<>>)

(***************************************************************************)
(* The filesystem. A path is a sequence of components whose first is an    *)
(* output root. perm[root] says what the root lets a process do:           *)
(*   ok            mkdir, write and unlink succeed                         *)
(*   mkdir_fails   mkdir raises OSError                                    *)
(*   write_fails   mkdir succeeds, writing a file raises OSError           *)
(*   unlink_fails  mkdir and write succeed, unlink raises OSError          *)
(* fs_log records the operations that succeeded, in order.                 *)
(***************************************************************************)
REQUESTED == "<output>"
GEN_FALLBACK == "/tmp/umx-tools-v3/umx-doc-pack"
FLOW_FALLBACK == "/tmp/umx-tools-v3/umx-output"
GEN_DEFAULT_OUTPUT == "./umx-doc-pack"
COMMAND_OUTPUT == "<command --output>"
ROOTS == {REQUESTED, GEN_FALLBACK, FLOW_FALLBACK, GEN_DEFAULT_OUTPUT, COMMAND_OUTPUT}
PERMS == {"ok", "mkdir_fails", "write_fails", "unlink_fails"}

FsOp(op, path) == [op |-> op, path |-> path]

\* faulty variant: a successful probe leaves its marker behind
Probe_keeps_marker(pm, candidate, marker) ==
    LET p == pm[candidate[1]]
        mk == <<FsOp("mkdir", candidate)>>
        wr == <<FsOp("write", Append(candidate, marker))>>
    IN CASE p = "mkdir_fails" -> [ok |-> FALSE, ops |-> <<>>]
         [] p = "write_fails" -> [ok |-> FALSE, ops |-> mk]
         [] p = "unlink_fails" -> [ok |-> FALSE, ops |-> mk \o wr]
         [] p = "ok" -> [ok |-> TRUE, ops |-> mk \o wr]

\* One candidate of the probe loop: the operations done before it returns or
\* raises OSError, and whether it returned.
Probe(pm, candidate, marker) ==
    LET p == pm[candidate[1]]
        mk == <<FsOp("mkdir", candidate)>>
        wr == <<FsOp("write", Append(candidate, marker))>>
        rm == <<FsOp("unlink", Append(candidate, marker))>>
    IN CASE p = "mkdir_fails" -> [ok |-> FALSE, ops |-> <<>>]
         [] p = "write_fails" -> [ok |-> FALSE, ops |-> mk]
         [] p = "unlink_fails" -> [ok |-> FALSE, ops |-> mk \o wr]
         [] p = "ok" -> [ok |-> TRUE, ops |-> mk \o wr \o rm]

\* The loop `for candidate in candidates: try ... except OSError: continue`
\* from candidate i; root = <<>> when every candidate failed (SystemExit).
RECURSIVE ProbeLoop(_, _, _, _, _)
ProbeLoop(pm, candidates, marker, i, ops) ==
    IF i > Len(candidates) THEN [root |-> <<>>, ops |-> ops]
    ELSE LET r == Probe(pm, candidates[i], marker)
         IN IF r.ok THEN [root |-> candidates[i], ops |-> ops \o r.ops]
            ELSE ProbeLoop(pm, candidates, marker, i + 1, ops \o r.ops)

ensure_writable_output_root(pm, requested_root) ==
    ProbeLoop(pm, <<requested_root, <<GEN_FALLBACK>>>>, ".umx-write-test", 1, <<>>)

\* write_file(path, content): parent.mkdir, then write_text
write_file(path) ==
    <<FsOp("mkdir", SubSeq(path, 1, Len(path) - 1)), FsOp("write", path)>>

\* write_file for each name of a list under dir
RECURSIVE WriteAll(_, _)
WriteAll(dir, names) ==
    IF names = <<>> THEN <<>>
    ELSE write_file(Append(dir, Head(names))) \o WriteAll(dir, Tail(names))

(***************************************************************************)
(* Command-line values. --combo and --mode arrive as text; the code        *)
(* strips and lower-cases them and then compares them with its tokens.     *)
(***************************************************************************)
ArgText ==
    ("auto" :> <<"a","u","t","o">>) @@
    ("c1" :> <<"c","1">>) @@ ("c2" :> <<"c","2">>) @@ ("c3" :> <<"c","3">>) @@
    ("c4" :> <<"c","4">>) @@ ("c5" :> <<"c","5">>) @@ ("c6" :> <<"c","6">>) @@
    ("minimal" :> <<"m","i","n","i","m","a","l">>) @@
    ("standard" :> <<"s","t","a","n","d","a","r","d">>) @@
    ("full" :> <<"f","u","l","l">>) @@
    ("single-file" :> <<"s","i","n","g","l","e","-","f","i","l","e">>) @@
    ("single_file" :> <<"s","i","n","g","l","e","_","f","i","l","e">>) @@
    ("single" :> <<"s","i","n","g","l","e">>)

\* What the code cannot tell apart: any text that is none of its tokens.
OTHER_TEXT == "<other>"

\* The token a text equals, if any
Token(text) ==
    IF \E k \in DOMAIN ArgText : ArgText[k] = text
    THEN CHOOSE k \in DOMAIN ArgText : ArgText[k] = text
    ELSE OTHER_TEXT

MODE_ALIAS ==
    ("single" :> "single-file") @@ ("single_file" :> "single-file") @@
    ("single-file" :> "single-file")

normalize_mode_arg(raw) ==
    LET m == Token(lower(strip(raw)))
    IN IF m \in DOMAIN MODE_ALIAS THEN MODE_ALIAS[m] ELSE m

\* parse_args: the generator's command line
Args(combo, m, print_only, flat, allow_placeholder, output) ==
    [combo |-> combo, mode |-> m, print_only |-> print_only, flat |-> flat,
     allow_placeholder |-> allow_placeholder, output |-> output]

DefaultArgs == Args(ArgText["auto"], ArgText["auto"], FALSE, FALSE, FALSE, <<REQUESTED>>)

(***************************************************************************)
(* generate_doc_pack.main, one action per step                             *)
(***************************************************************************)
NoScores == [k \in COMBO_VALUES |-> 0]

EngineVars == <<req, quality_issues, scores, primary_code, secondary_code,
                complexity, mode, docs>>

\* lines 1116-1124: parse_args, normalize and validate --combo and --mode
main_args ==
    /\ gpc = "args"
    /\ LET c == Token(lower(strip(args.combo)))
           m == normalize_mode_arg(args.mode)
       IN /\ combo_arg' = c
          /\ mode_arg' = m
          /\ IF c # "auto" /\ c \notin COMBO_VALUES
             THEN gpc' = "error" /\ gerror' = "Invalid --combo"
             ELSE IF m # "auto" /\ m \notin MODE_VALUES
                  THEN gpc' = "error" /\ gerror' = "Invalid --mode"
                  ELSE gpc' = "load" /\ gerror' = gerror
    /\ UNCHANGED <<FlowVars, args, input_file, EngineVars, writable_output, gen_stdout,
                   perm, fs_log>>

\* line 1126: req = load_requirements(Path(args.input)); read_text raises
\* when there is no file, json.loads on a malformed file, data.get on a
\* value that is no mapping
main_load ==
    /\ gpc = "load"
    /\ IF input_file.shape = "missing"
       THEN gpc' = "error" /\ gerror' = "FileNotFoundError" /\ req' = req
       ELSE IF input_file.shape = "malformed"
       THEN gpc' = "error" /\ gerror' = "JSONDecodeError" /\ req' = req
       ELSE IF input_file.shape = "array"
            THEN gpc' = "error" /\ gerror' = "AttributeError" /\ req' = req
            ELSE LET r == load_requirements(input_file.map)
                 IN IF r.exc # ""
                    THEN gpc' = "error" /\ gerror' = r.exc /\ req' = req
                    ELSE gpc' = "gate" /\ gerror' = gerror /\ req' = r.req
    /\ UNCHANGED <<FlowVars, args, input_file, combo_arg, mode_arg, quality_issues, scores,
                   primary_code, secondary_code, complexity, mode, docs,
                   writable_output, gen_stdout, perm, fs_log>>

\* lines 1128-1137: the quality gate, unless --allow-placeholder
main_gate ==
    /\ gpc = "gate"
    /\ IF args.allow_placeholder
       THEN gpc' = "score" /\ UNCHANGED <<quality_issues, gerror>>
       ELSE /\ quality_issues' = find_requirement_quality_issues(req)
            /\ IF quality_issues' # <<>>
               THEN gpc' = "error" /\ gerror' = "Input quality check failed"
               ELSE gpc' = "score" /\ gerror' = gerror
    /\ UNCHANGED <<FlowVars, args, input_file, combo_arg, mode_arg, req, scores,
                   primary_code, secondary_code, complexity, mode, docs,
                   writable_output, gen_stdout, perm, fs_log>>

\* line 1139
main_score ==
    /\ gpc = "score"
    /\ scores' = score_combos(req)
    /\ gpc' = "select"
    /\ UNCHANGED <<FlowVars, args, input_file, combo_arg, mode_arg, req, quality_issues,
                   primary_code, secondary_code, complexity, mode, docs,
                   writable_output, gerror, gen_stdout, perm, fs_log>>

\* line 1140
main_select ==
    /\ gpc = "select"
    /\ LET sel == select_combo(scores, combo_arg)
       IN primary_code' = sel[1] /\ secondary_code' = sel[2]
    /\ gpc' = "complexity"
    /\ UNCHANGED <<FlowVars, args, input_file, combo_arg, mode_arg, req, quality_issues,
                   scores, complexity, mode, docs,
                   writable_output, gerror, gen_stdout, perm, fs_log>>

\* line 1141
main_complexity ==
    /\ gpc = "complexity"
    /\ complexity' = complexity_level(req)
    /\ gpc' = "mode"
    /\ UNCHANGED <<FlowVars, args, input_file, combo_arg, mode_arg, req, quality_issues,
                   scores, primary_code, secondary_code, mode, docs,
                   writable_output, gerror, gen_stdout, perm, fs_log>>

\* line 1142
main_mode ==
    /\ gpc = "mode"
    /\ mode' = recommend_mode(req, complexity, mode_arg)
    /\ gpc' = "plan"
    /\ UNCHANGED <<FlowVars, args, input_file, combo_arg, mode_arg, req, quality_issues,
                   scores, primary_code, secondary_code, complexity, docs,
                   writable_output, gerror, gen_stdout, perm, fs_log>>

\* lines 1144-1152: the plan and the report; --print-only prints it and returns
main_plan ==
    /\ gpc = "plan"
    /\ docs' = planned_docs(primary_code, mode)
    /\ IF args.print_only
       THEN gpc' = "done" /\ gen_stdout' = Append(gen_stdout, "report")
       ELSE gpc' = "output" /\ gen_stdout' = gen_stdout
    /\ UNCHANGED <<FlowVars, args, input_file, combo_arg, mode_arg, req, quality_issues,
                   scores, primary_code, secondary_code, complexity, mode,
                   writable_output, gerror, perm, fs_log>>

\* lines 1154-1162: ensure_writable_output_root and the fallback warning
main_output ==
    /\ gpc = "output"
    /\ LET r == ensure_writable_output_root(perm, args.output)
       IN /\ fs_log' = fs_log \o r.ops
          /\ writable_output' = r.root
          /\ IF r.root = <<>>
             THEN /\ gpc' = "error"
                  /\ gerror' = "Unable to write output folder"
                  /\ gen_stdout' = gen_stdout
             ELSE /\ gpc' = "write"
                  /\ gerror' = gerror
                  /\ gen_stdout' = IF r.root # args.output
                                   THEN Append(gen_stdout, "Warning: fallback")
                                   ELSE gen_stdout
    /\ UNCHANGED <<FlowVars, args, input_file, combo_arg, mode_arg, EngineVars, perm>>

\* the project folder under the output root (--project-slug or slugify)
SLUG == "<slug>"

\* lines 1164-1193: out_root, the documents, the summary
main_write ==
    /\ gpc = "write"
    /\ LET out_root == IF args.flat THEN writable_output
                       ELSE Append(writable_output, SLUG)
           files == IF mode = "single-file" THEN <<SINGLE_FILE_DOC>>
                    ELSE <<"selection-report.md">> \o docs
       IN fs_log' = fs_log \o <<FsOp("mkdir", out_root)>> \o WriteAll(out_root, files)
    /\ gen_stdout' = Append(gen_stdout, "Generated")
    /\ gpc' = "done"
    /\ UNCHANGED <<FlowVars, args, input_file, combo_arg, mode_arg, EngineVars,
                   writable_output, gerror, perm>>

(***************************************************************************)
(* run_umx_flow.py                                                         *)
(***************************************************************************)
VALID_PATHS == {"ask", "traditional-first", "direct"}
VALID_DOCS == <<"prd", "architecture", "api", "database">>

PathText ==
    ("ask" :> <<"a","s","k">>) @@ ("traditional-first" :> <<"t","r","a","d","i","t","i","o","n","a","l","-","f","i","r","s","t">>) @@
    ("direct" :> <<"d","i","r","e","c","t">>)

\* the path a text names: one of VALID_PATHS, or a text that is none of them
PathToken(text) ==
    IF \E k \in VALID_PATHS : PathText[k] = text
    THEN CHOOSE k \in VALID_PATHS : PathText[k] = text
    ELSE OTHER_TEXT

\* DOC_ALIAS.get(item)
DOC_ALIAS(item) ==
    CASE item = <<"p","r","d">> -> "prd"
      [] item = <<"p","r","o","d","u","c","t">> -> "prd"
      [] item = <<"a","r","c","h","i","t","e","c","t","u","r","e">> -> "architecture"
      [] item = <<"a","r","c","h">> -> "architecture"
      [] item = <<"a","p","i">> -> "api"
      [] item = <<"d","a","t","a","b","a","s","e">> -> "database"
      [] item = <<"d","b">> -> "database"
      [] OTHER -> None

\* str.split(sep), sep one character
RECURSIVE Split(_, _)
Split(s, sep) ==
    IF \A i \in 1..Len(s) : s[i] # sep THEN <<s>>
    ELSE LET cut == CHOOSE i \in 1..Len(s) :
                        s[i] = sep /\ \A j \in 1..(i - 1) : s[j] # sep
         IN <<SubSeq(s, 1, cut - 1)>> \o Split(SubSeq(s, cut + 1, Len(s)), sep)

normalize_docs(raw) ==
    LET parts == Split(raw, ",")
        items == {lower(strip(parts[i])) : i \in {j \in 1..Len(parts) : strip(parts[j]) # <<>>}}
        keys == {DOC_ALIAS(item) : item \in items} \ {None}
        picked == IF items = {} \/ keys = {}
                  THEN {VALID_DOCS[i] : i \in 1..Len(VALID_DOCS)}
                  ELSE keys
    IN SelectSeq(VALID_DOCS, LAMBDA d : d \in picked)

\* dict: a function whose domain is the keys present
EmptyDict == <<>>
Put(d, k, v) == (k :> v) @@ d
Get(d, k, default) == IF k \in DOMAIN d THEN d[k] ELSE default

\* the natural-language acceptance shortcuts
ACCEPT_PHRASES ==
    {<<"U+63A5","U+53D7","U+63A8","U+8350">>, <<"U+786E","U+8BA4">>, <<"U+786E","U+8BA4","U+63A8","U+8350">>, <<"U+786E","U+8BA4","U+65B9","U+6848">>, <<"U+5F00","U+59CB","U+751F","U+6210">>,
     <<"U+5F00","U+59CB","U+751F","U+6210","U+6587","U+6863">>, <<"U+63A5","U+53D7">>}

ACCEPT_OVERRIDES ==
    Put(Put(Put(EmptyDict, "path", <<"d","i","r","e","c","t">>), "combo", <<"a","u","t","o">>),
        "mode", <<"s","i","n","g","l","e","-","f","i","l","e">>)

\* key.startswith("--")
IsOption(key) == Len(key) >= 2 /\ key[1] = "-" /\ key[2] = "-"

\* the while loop of parse_command from index i (0-based in the code, the
\* token i of the code is tokens[i + 1] here)
RECURSIVE OptionLoop(_, _, _)
OptionLoop(tokens, i, result) ==
    IF ~(i < Len(tokens)) THEN result
    ELSE LET key == tokens[i + 1]
         IN IF IsOption(key) /\ i + 1 < Len(tokens)
            THEN LET val == tokens[i + 2]
                     next ==
                        CASE key = <<"-","-","d","o","c","s">> -> Put(result, "traditional_docs", val)
                          [] key = <<"-","-","c","o","m","b","o">> -> Put(result, "combo", val)
                          [] key = <<"-","-","m","o","d","e">> -> Put(result, "mode", val)
                          [] key = <<"-","-","o","u","t","p","u","t">> -> Put(result, "output", val)
                          [] key = <<"-","-","p","a","t","h">> -> Put(result, "path", val)
                          [] OTHER -> result
                 IN OptionLoop(tokens, i + 2, next)
            ELSE OptionLoop(tokens, i + 1, result)

\* parse_command on the tokens of the command (shlex.split of the stripped
\* text; an acceptance phrase is one token)
parse_command(raw) ==
    IF raw = <<>> THEN EmptyDict
    ELSE IF Len(raw) = 1 /\ raw[1] \in ACCEPT_PHRASES THEN ACCEPT_OVERRIDES
    ELSE LET tokens == IF raw[1] \in {<<"/","u","m","x">>, <<"u","m","x">>} THEN Tail(raw) ELSE raw
         IN IF tokens = <<>> THEN EmptyDict
            ELSE LET action == lower(tokens[1])
                 IN CASE action = <<"s","t","a","r","t">> -> Put(EmptyDict, "path", <<"a","s","k">>)
                      [] action = <<"t","r","a","d","i","t","i","o","n","a","l">> ->
                            OptionLoop(tokens, 1, Put(EmptyDict, "path", <<"t","r","a","d","i","t","i","o","n","a","l","-","f","i","r","s","t">>))
                      [] action = <<"d","i","r","e","c","t">> ->
                            OptionLoop(tokens, 1, Put(EmptyDict, "path", <<"d","i","r","e","c","t">>))
                      [] action = <<"r","e","c","o","m","m","e","n","d">> ->
                            OptionLoop(tokens, 1, Put(EmptyDict, "recommend", <<"1">>))
                      [] action \in {<<"a","c","c","e","p","t">>, <<"a","c","c","e","p","t","e","d">>, <<"a","c","c","e","p","t","-","r","e","c","o","m","m","e","n","d">>} ->
                            OptionLoop(tokens, 1, ACCEPT_OVERRIDES)
                      [] OTHER -> EmptyDict

\* run_umx_flow.load_requirements: the three texts
NoFlowReq == [project_name |-> <<>>, project_goal |-> <<>>, target_users |-> <<>>]

flow_load_requirements(data) ==
    [project_name |-> TextField(data["project_name"], NEW_PROJECT),
     project_goal |-> TextField(data["project_goal"], GOAL_DEFAULT),
     target_users |-> TextField(data["target_users"], USERS_DEFAULT)]

ensure_writable_root(pm, requested) ==
    ProbeLoop(pm, <<requested, <<FLOW_FALLBACK>>>>, ".umx-v3-write-test", 1, <<>>)

\* the file of each traditional document
TRADITIONAL_FILE ==
    [prd |-> "01-prd-lite.md", architecture |-> "02-architecture-lite.md",
     api |-> "03-api-spec.md", database |-> "04-database-design.md"]

\* write_traditional_docs: the index, then one file per document
write_traditional_docs(output_dir, doc_keys) ==
    WriteAll(output_dir,
             <<"00-traditional-index.md">>
             \o [i \in 1..Len(doc_keys) |-> TRADITIONAL_FILE[doc_keys[i]]])

\* write_route_summary
write_route_summary(root) == write_file(Append(root, "route-summary.md"))

\* the root a text of --output names
OutputRoot(dict, flow_a) ==
    IF "output" \in DOMAIN dict THEN <<COMMAND_OUTPUT>> ELSE flow_a.output

NoConfig ==
    [output_root |-> <<>>, path_choice |-> None, combo |-> <<>>, mode |-> <<>>,
     traditional_docs |-> <<>>, print_only |-> FALSE]

FlowArgs(output, path, traditional_docs, combo, m, command, print_only) ==
    [output |-> output, path |-> path, traditional_docs |-> traditional_docs,
     combo |-> combo, mode |-> m, command |-> command, print_only |-> print_only]

DefaultFlowArgs ==
    FlowArgs(<<REQUESTED>>, <<"a","s","k">>, <<"p","r","d",",","a","r","c","h","i","t","e","c","t","u","r","e",",","a","p","i",",","d","a","t","a","b","a","s","e">>,
             <<"a","u","t","o">>, <<"s","i","n","g","l","e","-","f","i","l","e">>, <<>>, FALSE)

(***************************************************************************)
(* run_umx_flow.main, one action per step. The generator is a subprocess   *)
(* (subprocess.run, check=True): the flow runner sets its command line,    *)
(* waits for it to end and raises CalledProcessError when it failed.       *)
(***************************************************************************)
GenLocals == <<combo_arg, mode_arg, EngineVars, writable_output, gerror, gen_stdout>>

\* main: combo, mode, output_arg, docs_arg
FlowCombo == Get(overrides, "combo", flow_args.combo)
FlowMode == Get(overrides, "mode", flow_args.mode)
FlowDocsArg == Get(overrides, "traditional_docs", flow_args.traditional_docs)

\* lines 311-325: parse_args, parse_command, the path and the input file
flow_start ==
    /\ fpc = "args"
    /\ overrides' = parse_command(flow_args.command)
    /\ path_choice' = PathToken(Get(overrides', "path", flow_args.path))
    /\ IF path_choice' \notin VALID_PATHS
       THEN fpc' = "error" /\ ferror' = "Invalid path"
       ELSE IF input_file.shape = "missing"
            THEN fpc' = "error" /\ ferror' = "Input JSON not found"
            ELSE fpc' = "load" /\ ferror' = ferror
    /\ UNCHANGED <<flow_args, flow_req, config, flow_stdout, args, gpc,
                   GenLocals, input_file, perm, fs_log>>

\* line 327: req = load_requirements(input_path)
flow_load ==
    /\ fpc = "load"
    /\ IF input_file.shape = "malformed"
       THEN fpc' = "error" /\ ferror' = "JSONDecodeError" /\ flow_req' = flow_req
       ELSE IF input_file.shape = "array"
            THEN fpc' = "error" /\ ferror' = "AttributeError" /\ flow_req' = flow_req
            ELSE /\ flow_req' = flow_load_requirements(input_file.map)
                 /\ fpc' = "route" /\ ferror' = ferror
    /\ UNCHANGED <<flow_args, overrides, path_choice, config, flow_stdout, args,
                   gpc, GenLocals, input_file, perm, fs_log>>

\* lines 329-331: the ask route prints the questions and returns
flow_ask ==
    /\ fpc = "route"
    /\ path_choice = "ask"
    /\ flow_stdout' = Append(flow_stdout, "ask_text")
    /\ fpc' = "done"
    /\ UNCHANGED <<flow_args, overrides, path_choice, flow_req, config, ferror,
                   args, gpc, GenLocals, input_file, perm, fs_log>>

\* lines 333-349: the recommend command runs the generator with --combo auto,
\* the mode and --print-only
flow_recommend ==
    /\ fpc = "route"
    /\ path_choice # "ask"
    /\ Get(overrides, "recommend", <<>>) = <<"1">>
    /\ args' = Args(ArgText["auto"], FlowMode, TRUE, FALSE, FALSE, <<GEN_DEFAULT_OUTPUT>>)
    /\ gpc' = "args"
    /\ fpc' = "recommend_wait"
    /\ UNCHANGED <<flow_args, overrides, path_choice, flow_req, config, ferror,
                   flow_stdout, GenLocals, input_file, perm, fs_log>>

\* lines 346-351: check=True, then print(proc.stdout)
flow_recommend_return ==
    /\ fpc = "recommend_wait"
    /\ gpc \in {"done", "error"}
    /\ IF gpc = "error"
       THEN fpc' = "error" /\ ferror' = "CalledProcessError" /\ flow_stdout' = flow_stdout
       ELSE fpc' = "done" /\ ferror' = ferror
            /\ flow_stdout' = flow_stdout \o gen_stdout
    /\ UNCHANGED <<flow_args, overrides, path_choice, flow_req, config,
                   args, gpc, GenLocals, input_file, perm, fs_log>>

\* lines 353-373: the documents, the writable root, the config
flow_root ==
    /\ fpc = "route"
    /\ path_choice # "ask"
    /\ Get(overrides, "recommend", <<>>) # <<"1">>
    /\ LET requested_root == OutputRoot(overrides, flow_args)
           r == ensure_writable_root(perm, requested_root)
       IN IF r.root = <<>>
          THEN /\ fpc' = "error" /\ ferror' = "Unable to write output folder."
               /\ fs_log' = fs_log \o r.ops
               /\ UNCHANGED <<config, flow_stdout>>
          ELSE /\ fs_log' = fs_log \o r.ops \o <<FsOp("mkdir", r.root)>>
               /\ flow_stdout' = IF r.root # requested_root
                                 THEN Append(flow_stdout, "Warning: fallback")
                                 ELSE flow_stdout
               /\ config' = [output_root |-> r.root, path_choice |-> path_choice,
                             combo |-> FlowCombo, mode |-> FlowMode,
                             traditional_docs |-> normalize_docs(FlowDocsArg),
                             print_only |-> flow_args.print_only]
               /\ fpc' = IF flow_args.print_only THEN "print_only" ELSE "summary"
               /\ ferror' = ferror
    /\ UNCHANGED <<flow_args, overrides, path_choice, flow_req, args, gpc,
                   GenLocals, input_file, perm>>

\* run_vibe_generator: the command line it gives the generator
VibeArgs(cfg) ==
    Args(cfg.combo, cfg.mode, cfg.print_only, TRUE, FALSE,
         Append(cfg.output_root, "vibe-docs"))

\* lines 375-382: --print-only prints the route and runs the generator with
\* --print-only
flow_print_only ==
    /\ fpc = "print_only"
    /\ flow_stdout' = Append(flow_stdout, "Route")
    /\ args' = VibeArgs(config)
    /\ gpc' = "args"
    /\ fpc' = "vibe_wait"
    /\ UNCHANGED <<flow_args, overrides, path_choice, flow_req, config, ferror,
                   GenLocals, input_file, perm, fs_log>>

\* line 386: write_route_summary
flow_summary ==
    /\ fpc = "summary"
    /\ fs_log' = fs_log \o write_route_summary(config.output_root)
    /\ fpc' = "traditional"
    /\ UNCHANGED <<flow_args, overrides, path_choice, flow_req, config, ferror,
                   flow_stdout, args, gpc, GenLocals, input_file, perm>>

\* lines 388-390: the traditional documents on the traditional-first route
flow_traditional ==
    /\ fpc = "traditional"
    /\ fs_log' = IF config.path_choice = "traditional-first"
                 THEN fs_log \o write_traditional_docs(
                          Append(config.output_root, "traditional-docs"),
                          config.traditional_docs)
                 ELSE fs_log
    /\ fpc' = "vibe"
    /\ UNCHANGED <<flow_args, overrides, path_choice, flow_req, config, ferror,
                   flow_stdout, args, gpc, GenLocals, input_file, perm>>

\* line 392: vibe = run_vibe_generator(config)
flow_vibe ==
    /\ fpc = "vibe"
    /\ args' = VibeArgs(config)
    /\ gpc' = "args"
    /\ fpc' = "vibe_wait"
    /\ UNCHANGED <<flow_args, overrides, path_choice, flow_req, config, ferror,
                   flow_stdout, GenLocals, input_file, perm, fs_log>>

\* lines 293, 383-384, 394-400: check=True, then the summary and vibe.stdout
flow_vibe_return ==
    /\ fpc = "vibe_wait"
    /\ gpc \in {"done", "error"}
    /\ IF gpc = "error"
       THEN fpc' = "error" /\ ferror' = "CalledProcessError" /\ flow_stdout' = flow_stdout
       ELSE fpc' = "done" /\ ferror' = ferror
            /\ flow_stdout' = flow_stdout \o gen_stdout
    /\ UNCHANGED <<flow_args, overrides, path_choice, flow_req, config,
                   args, gpc, GenLocals, input_file, perm, fs_log>>

\* the flow runner is not run
FlowIdle ==
    /\ flow_args = DefaultFlowArgs
    /\ overrides = EmptyDict
    /\ path_choice = None
    /\ flow_req = NoFlowReq
    /\ config = NoConfig
    /\ fpc = "none"
    /\ ferror = ""
    /\ flow_stdout = <<>>

(***************************************************************************)
(* Inputs                                                                  *)
(***************************************************************************)
GOOD_NAME == <<"S","h","o","p">>
GOOD_GOAL == <<"S","e","l","l"," ","b","o","o","k","s"," ","o","n","l","i","n","e">>
GOOD_USERS == <<"R","e","a","d","e","r","s">>

\* The normalized requirements with the given team sizes and module counts
\* (the text fields play no part in the engine).
RequirementsOf(teams, modules) ==
    [project_name : {GOOD_NAME}, project_goal : {GOOD_GOAL},
     target_users : {GOOD_USERS},
     team_size : teams, module_count : modules,
     ui_priority : LEVELS, backend_complexity : LEVELS,
     domain_complexity : LEVELS, compliance_level : LEVELS,
     design_source : DESIGN_VALUES,
     frontend_backend_separation : BOOLEAN, need_fast_validation : BOOLEAN,
     iteration_speed : SPEEDS]

\* Every normalized requirement with team_size <= MaxTeam and
\* module_count <= MaxModules
Requirements == RequirementsOf(1..MaxTeam, 1..MaxModules)

\* The requirement of a file that gives the three texts and nothing else:
\* every other field at the default of load_requirements
DefaultRequirement ==
    [project_name |-> GOOD_NAME, project_goal |-> GOOD_GOAL,
     target_users |-> GOOD_USERS, team_size |-> 2, module_count |-> 3,
     ui_priority |-> "medium", backend_complexity |-> "medium",
     domain_complexity |-> "low", compliance_level |-> "low",
     design_source |-> "none", frontend_backend_separation |-> FALSE,
     need_fast_validation |-> TRUE, iteration_speed |-> "normal"]

NoInput == [shape |-> "object", map |-> [k \in KEYS |-> JAbsent]]

\* Nothing read, nothing printed, nothing written. The specifications of
\* one function start main at the step that calls it, with the function's
\* inputs drawn and every other result not yet computed.
Fresh ==
    /\ FlowIdle
    /\ args = DefaultArgs
    /\ input_file = NoInput
    /\ quality_issues = <<>>
    /\ docs = <<>>
    /\ writable_output = <<>>
    /\ gerror = ""
    /\ gen_stdout = <<>>
    /\ perm = [r \in ROOTS |-> "ok"]
    /\ fs_log = <<>>

(***************************************************************************)
(* SpecScore: score_combos on every requirement                            *)
(***************************************************************************)
InitScore ==
    /\ Fresh
    /\ gpc = "score"
    /\ req \in Requirements
    /\ combo_arg = "auto" /\ mode_arg = "auto"
    /\ scores = NoScores
    /\ primary_code = None /\ secondary_code = None
    /\ complexity = None /\ mode = None

SpecScore == InitScore /\ [][main_score]_vars

\* C1: for every normalized requirement, the table score_combos returns has
\* exactly the six combo codes as keys and every score is an integer >= 0.
C1_ScoresOverSixCodes ==
    gpc = "select" =>
        /\ DOMAIN scores = {"c1", "c2", "c3", "c4", "c5", "c6"}
        /\ \A k \in DOMAIN scores : scores[k] \in Int /\ scores[k] >= 0

\* a scored requirement whose penalties apply: some combo is at the lowest
\* score the rules can give
C1_Witness ==
    /\ gpc = "select"
    /\ LEVEL_MAP[req.compliance_level] >= 1
    /\ LEVEL_MAP[req.domain_complexity] = 2
    /\ \E k \in DOMAIN scores : scores[k] = 1

(***************************************************************************)
(* SpecSelect: select_combo on every score table with scores 0..MaxScore   *)
(* and every forced value                                                  *)
(***************************************************************************)
ScoreTables == [COMBO_VALUES -> 0..MaxScore]

InitSelect ==
    /\ Fresh
    /\ gpc = "select"
    /\ req = DefaultRequirement
    /\ combo_arg \in {"auto", OTHER_TEXT} \cup COMBO_VALUES
    /\ mode_arg = "auto"
    /\ scores \in ScoreTables
    /\ primary_code = None /\ secondary_code = None
    /\ complexity = None /\ mode = None

SpecSelect == InitSelect /\ [][main_select]_vars

\* the highest score of a table
TopScore(sc) == CHOOSE v \in {sc[k] : k \in DOMAIN sc} : \A k \in DOMAIN sc : sc[k] <= v

\* the codes that have it
TopTied(sc) == {k \in DOMAIN sc : sc[k] = TopScore(sc)}

\* the smallest code of a set
SmallestCode(S) == CHOOSE k \in S : \A j \in S : CodeRank[k] <= CodeRank[j]

\* C2: with no forced combo, when two or more combos share the highest
\* score, the primary is the lexicographically smallest of those tied.
C2_TieBreakSmallestCode ==
    (gpc = "complexity" /\ combo_arg = "auto" /\ Cardinality(TopTied(scores)) >= 2)
        => primary_code = SmallestCode(TopTied(scores))

\* a tie at the top that c1 is not part of
C2_Witness ==
    /\ gpc = "complexity" /\ combo_arg = "auto"
    /\ TopTied(scores) = {"c3", "c5"}
    /\ primary_code = "c3"

\* C3: a forced code among c1..c6 is the primary whatever it scores; with
\* 'auto' or any other value the primary is the top-ranked code.
C3_ForcedComboIsPrimary ==
    gpc = "complexity" =>
        IF combo_arg \in {"c1", "c2", "c3", "c4", "c5", "c6"}
        THEN primary_code = combo_arg
        ELSE primary_code = SmallestCode(TopTied(scores))

\* the forced code has the strictly lowest score of the six
C3_Witness ==
    /\ gpc = "complexity"
    /\ combo_arg = "c4"
    /\ \A k \in DOMAIN scores : k # "c4" => scores[k] > scores["c4"]
    /\ primary_code = "c4"

(***************************************************************************)
(* SpecMode: recommend_mode on every tier, forced mode, compliance level   *)
(* and fast-validation flag                                                *)
(***************************************************************************)
InitMode ==
    /\ Fresh
    /\ gpc = "mode"
    /\ req \in RequirementsOf({2}, {3})
    /\ combo_arg = "auto"
    /\ mode_arg \in {"auto", OTHER_TEXT} \cup MODE_VALUES
    /\ scores = NoScores
    /\ primary_code = None /\ secondary_code = None
    /\ complexity \in TIERS
    /\ mode = None

SpecMode == InitMode /\ [][main_mode]_vars

\* C4: the four rules in priority order: a forced mode among the four wins;
\* else tier S with fast validation gives minimal; else tier XL or high
\* compliance gives full; else standard. XL with fast validation and no
\* forced mode gives full.
C4_ModePolicy ==
    gpc = "plan" =>
        LET forced == mode_arg \in {"minimal", "standard", "full", "single-file"}
            rule2 == complexity = "S" /\ req.need_fast_validation
            rule3 == complexity = "XL" \/ req.compliance_level = "high"
        IN /\ forced => mode = mode_arg
           /\ (~forced /\ rule2) => mode = "minimal"
           /\ (~forced /\ ~rule2 /\ rule3) => mode = "full"
           /\ (~forced /\ ~rule2 /\ ~rule3) => mode = "standard"
           /\ (~forced /\ complexity = "XL" /\ req.need_fast_validation)
                 => mode = "full"

\* XL, fast validation, no forced mode
C4_Witness ==
    /\ gpc = "plan"
    /\ mode_arg = "auto"
    /\ complexity = "XL" /\ req.need_fast_validation
    /\ mode = "full"

(***************************************************************************)
(* SpecTier: complexity_level on every requirement                         *)
(***************************************************************************)
InitTier ==
    /\ Fresh
    /\ gpc = "complexity"
    /\ req \in Requirements
    /\ combo_arg = "auto" /\ mode_arg = "auto"
    /\ scores = NoScores
    /\ primary_code = None /\ secondary_code = None
    /\ complexity = None /\ mode = None

SpecTier == InitTier /\ [][main_complexity]_vars

TierRank == [S |-> 0, M |-> 1, L |-> 2, XL |-> 3]

\* C5: raising compliance_level alone never lowers the tier.
C5_ComplianceMonotone ==
    gpc = "mode" =>
        \A l \in LEVELS :
            LEVEL_MAP[l] >= LEVEL_MAP[req.compliance_level] =>
                TierRank[complexity_level([req EXCEPT !.compliance_level = l])]
                    >= TierRank[complexity]

\* a requirement whose tier does rise with compliance
C5_Witness ==
    /\ gpc = "mode"
    /\ req.compliance_level = "low"
    /\ complexity = "S"
    /\ complexity_level([req EXCEPT !.compliance_level = "high"]) = "M"

\* how many of the thresholds x exceeds
Exceeded(x, thresholds) == Cardinality({t \in thresholds : x > t})

\* the reference total of C6
ReferenceTotal(r) ==
    Exceeded(r.team_size, {2, 5, 8}) + Exceeded(r.module_count, {3, 6, 10})
    + LEVEL_MAP[r.domain_complexity] + LEVEL_MAP[r.compliance_level]
    + LEVEL_MAP[r.backend_complexity]
    + (IF r.frontend_backend_separation THEN 1 ELSE 0)

\* C6: the tier is the reference computation (bands of team_size and
\* module_count, the three ordinals, 1 for separation; <= 4 S, <= 7 M,
\* <= 10 L, else XL), and ui_priority, design_source, need_fast_validation
\* and iteration_speed do not influence it.
C6_TierIsReference ==
    gpc = "mode" =>
        /\ complexity = <<"S", "M", "L", "XL">>[Exceeded(ReferenceTotal(req), {4, 7, 10}) + 1]
        /\ \A l \in LEVELS : complexity_level([req EXCEPT !.ui_priority = l]) = complexity
        /\ \A d \in DESIGN_VALUES : complexity_level([req EXCEPT !.design_source = d]) = complexity
        /\ \A b \in BOOLEAN : complexity_level([req EXCEPT !.need_fast_validation = b]) = complexity
        /\ \A v \in SPEEDS : complexity_level([req EXCEPT !.iteration_speed = v]) = complexity

\* a total on a threshold: 7 is still M, with module_count on a band edge
C6_Witness ==
    /\ gpc = "mode"
    /\ req.module_count = 6
    /\ ReferenceTotal(req) = 7
    /\ complexity = "M"

(***************************************************************************)
(* SpecLoad: load_requirements on raw mappings. Every key is absent except *)
(* two, which take every pair of raw values; each field is read from its   *)
(* own key alone.                                                          *)
(***************************************************************************)
RawValues ==
    {JAbsent, JNull, JBool(TRUE), JBool(FALSE),
     JInt(-3), JInt(0), JInt(7), JFloat(25), JFloat(-5),
     JInf(1), JInf(-1), JNan, JList, JDict,
     JStr(<<>>), JStr(<<" ", " ">>),
     JStr(<<"h","i","g","h">>), JStr(<<" ","H","i","g","h"," ">>),
     JStr(<<"f","i","g","m","a">>), JStr(<<"F","A","S","T">>),
     JStr(<<"y","e","s">>), JStr(<<" ","N"," ">>), JStr(<<"0">>),
     JStr(<<"1","2">>), JStr(<<"-","4">>), JStr(<<" ","3"," ">>),
     JStr(<<"1",".","5">>), JStr(<<"a","b","c">>)}

RawMappings ==
    {[k \in KEYS |-> IF k = k1 THEN v1 ELSE IF k = k2 THEN v2 ELSE JAbsent] :
        k1 \in KEYS, k2 \in KEYS, v1 \in RawValues, v2 \in RawValues}

InitLoad ==
    /\ FlowIdle
    /\ args = DefaultArgs
    /\ input_file \in [shape : {"object"}, map : RawMappings]
    /\ quality_issues = <<>> /\ docs = <<>> /\ writable_output = <<>>
    /\ gerror = "" /\ gen_stdout = <<>>
    /\ perm = [r \in ROOTS |-> "ok"] /\ fs_log = <<>>
    /\ gpc = "load"
    /\ req = NoReq
    /\ combo_arg = "auto" /\ mode_arg = "auto"
    /\ scores = NoScores
    /\ primary_code = None /\ secondary_code = None
    /\ complexity = None /\ mode = None

SpecLoad == InitLoad /\ [][main_load]_vars

\* every field present and in its domain
Normalized(r) ==
    /\ DOMAIN r = KEYS
    /\ r.project_name # <<>> /\ r.project_goal # <<>> /\ r.target_users # <<>>
    /\ r.team_size \in Int /\ r.team_size >= 1
    /\ r.module_count \in Int /\ r.module_count >= 1
    /\ r.ui_priority \in {"low", "medium", "high"}
    /\ r.backend_complexity \in {"low", "medium", "high"}
    /\ r.domain_complexity \in {"low", "medium", "high"}
    /\ r.compliance_level \in {"low", "medium", "high"}
    /\ r.design_source \in {"none", "wireframe", "figma"}
    /\ r.iteration_speed \in {"slow", "normal", "fast"}
    /\ r.frontend_backend_separation \in BOOLEAN
    /\ r.need_fast_validation \in BOOLEAN

\* C7: for every raw mapping, load_requirements completes without raising
\* and returns a record with all 13 fields present and in domain.
C7_LoadNeverRaises ==
    gpc # "load" => (gpc = "gate" /\ gerror = "" /\ Normalized(req))

(***************************************************************************)
(* SpecGate: find_requirement_quality_issues on the three texts            *)
(***************************************************************************)
GateTexts ==
    {<<>>, <<" ", " ">>,
     <<"<","n","a","m","e",">">>, <<"a",">","b">>, <<"<","t","o","d","o",">">>,
     <<"t","o","d","o">>, <<"T","O","D","O"," ","a","p","p">>, <<"T","b","d">>,
     <<"E","x","a","m","p","l","e"," ","s","h","o","p">>,
     <<"u","n","k","n","o","w","n">>,
     <<"t","o"," ","b","e"," ","d","e","t","e","r","m","i","n","e","d">>,
     NEW_PROJECT, GOAL_DEFAULT, USERS_DEFAULT,
     <<"U+793A","U+4F8B">>, <<"U+672A","U+5B9A">>,
     <<" ","o","k"," ">>, <<"1","2","3","4","5","6","7">>,
     <<"1","2","3","4","5","6","7","8">>,
     GOOD_NAME, GOOD_GOAL, GOOD_USERS}

InitGate ==
    /\ Fresh
    /\ gpc = "gate"
    /\ \E n \in GateTexts, g \in GateTexts, u \in GateTexts :
          req = [DefaultRequirement EXCEPT !.project_name = n,
                                           !.project_goal = g,
                                           !.target_users = u]
    /\ combo_arg = "auto" /\ mode_arg = "auto"
    /\ scores = NoScores
    /\ primary_code = None /\ secondary_code = None
    /\ complexity = None /\ mode = None

SpecGate == InitGate /\ [][main_gate]_vars

\* the checks of C9, each on its own
IsEmptyText(t) == \A i \in 1..Len(t) : t[i] \in {" ", "\t", "\n"}
HasAngle(t) == \E i \in 1..Len(t) : t[i] \in {"<", ">"}
HasHint(t) == \E h \in placeholder_hints : Contains(lower(t), h)
TrimmedLen(t) ==
    Cardinality({i \in 1..Len(t) :
        /\ \E j \in 1..i : t[j] \notin {" ", "\t", "\n"}
        /\ \E j \in i..Len(t) : t[j] \notin {" ", "\t", "\n"}})

\* the one issue C9 expects of a field, None when the field passes
ExpectedKind(key, t) ==
    IF IsEmptyText(t) THEN "empty"
    ELSE IF HasAngle(t) THEN "template"
    ELSE IF HasHint(t) THEN "placeholder"
    ELSE IF key = "project_goal" /\ TrimmedLen(t) < 8 THEN "too_short"
    ELSE None

\* the fields C9 expects an issue for, in the order of the three fields
Offending(r) ==
    SelectSeq(<<"project_name", "project_goal", "target_users">>,
              LAMBDA key : ExpectedKind(key, r[key]) # None)

\* C9: the three fields are examined in order, each offending field gives
\* exactly one issue chosen by first match (empty, angle bracket, placeholder
\* hint, and for project_goal a trimmed length under 8), a failure of one
\* field hides none of a later field, the list is empty exactly when no
\* field matches, and a goal of 'todo' gives the placeholder issue.
C9_GateReportsEveryField ==
    gpc \in {"score", "error"} =>
        /\ Len(quality_issues) = Len(Offending(req))
        /\ \A i \in 1..Len(quality_issues) :
              /\ quality_issues[i].key = Offending(req)[i]
              /\ quality_issues[i].kind =
                    ExpectedKind(Offending(req)[i], req[Offending(req)[i]])
        /\ (quality_issues = <<>>) <=>
              \A key \in {"project_name", "project_goal", "target_users"} :
                  ExpectedKind(key, req[key]) = None
        /\ req.project_goal = <<"t","o","d","o">> =>
              \E i \in 1..Len(quality_issues) :
                  /\ quality_issues[i].key = "project_goal"
                  /\ quality_issues[i].kind = "placeholder"
        /\ (gpc = "error") <=> (quality_issues # <<>>)

\* all three fields offend at once, each for another reason, the goal being
\* 'todo'
C9_Witness ==
    /\ gpc = "error"
    /\ req.project_name = <<"a",">","b">>
    /\ req.project_goal = <<"t","o","d","o">>
    /\ IsEmptyText(req.target_users)
    /\ Len(quality_issues) = 3


(***************************************************************************)
(* Spec: whole runs of the two scripts. A run is either generate_doc_pack  *)
(* started from its command line or run_umx_flow started from its command  *)
(* line, on one input file and one state of the output folders.            *)
(***************************************************************************)
\* an input file that gives the three texts
TextsFile(name, goal, users) ==
    [shape |-> "object",
     map |-> [k \in KEYS |-> CASE k = "project_name" -> JStr(name)
                               [] k = "project_goal" -> JStr(goal)
                               [] k = "target_users" -> JStr(users)
                               [] OTHER -> JAbsent]]

GOOD_FILE == TextsFile(GOOD_NAME, GOOD_GOAL, GOOD_USERS)

InputFiles ==
    {GOOD_FILE,
     TextsFile(GOOD_NAME, <<"t","o","d","o">>, GOOD_USERS),
     NoInput,
     [GOOD_FILE EXCEPT !.map.team_size = JInf(1)],
     [GOOD_FILE EXCEPT !.map.compliance_level = JStr(<<"h","i","g","h">>),
                       !.map.module_count = JInt(12)],
     [shape |-> "malformed", map |-> NoInput.map],
     [shape |-> "array", map |-> NoInput.map],
     [shape |-> "missing", map |-> NoInput.map]}

GenCommandLines ==
    {Args(c, m, p, f, a, <<REQUESTED>>) :
        c \in {<<"a","u","t","o">>, <<"c","3">>, <<" ","C","2"," ">>, <<"c","9">>},
        m \in {<<"a","u","t","o">>, <<"S","i","n","g","l","e">>, <<"t","u","r","b","o">>},
        p \in BOOLEAN, f \in BOOLEAN, a \in BOOLEAN}

FlowCommands ==
    {<<>>,
     <<<<"/","u","m","x">>, <<"s","t","a","r","t">>>>,
     <<<<"/","u","m","x">>, <<"d","i","r","e","c","t">>, <<"-","-","c","o","m","b","o">>, <<"c","9">>>>,
     <<<<"/","u","m","x">>, <<"d","i","r","e","c","t">>, <<"-","-","p","a","t","h">>, <<"s","i","d","e","w","a","y","s">>>>,
     <<<<"u","m","x">>, <<"T","r","a","d","i","t","i","o","n","a","l">>, <<"-","-","d","o","c","s">>, <<"p","r","d",",","d","b">>, <<"-","-","o","u","t","p","u","t">>, <<"e","l","s","e","w","h","e","r","e">>>>,
     <<<<"/","u","m","x">>, <<"r","e","c","o","m","m","e","n","d">>>>,
     <<<<"/","u","m","x">>, <<"r","e","c","o","m","m","e","n","d">>, <<"-","-","p","a","t","h">>, <<"d","i","r","e","c","t">>, <<"-","-","m","o","d","e">>, <<"f","u","l","l">>>>,
     <<<<"/","u","m","x">>, <<"a","c","c","e","p","t">>, <<"-","-","m","o","d","e">>, <<"t","u","r","b","o">>>>,
     <<<<"U+786E","U+8BA4","U+63A8","U+8350">>>>,
     <<<<"h","e","l","l","o">>>>}

FlowCommandLines ==
    {FlowArgs(<<REQUESTED>>, PathText[p], d, c, m, cmd, po) :
        p \in VALID_PATHS,
        d \in {DefaultFlowArgs.traditional_docs, <<"A","P","I",","," ","n","o","t","h","i","n","g">>},
        c \in {<<"a","u","t","o">>, <<"c","9">>},
        m \in {<<"s","i","n","g","l","e","-","f","i","l","e">>, <<"t","u","r","b","o">>},
        cmd \in FlowCommands,
        po \in BOOLEAN}

\* the output folders: the requested one in any state, each fallback
\* writable or not
Permissions ==
    {[r \in ROOTS |-> CASE r = REQUESTED -> q
                        [] r = GEN_FALLBACK -> g
                        [] r = FLOW_FALLBACK -> f
                        [] OTHER -> "ok"] :
        q \in PERMS, g \in {"ok", "mkdir_fails"}, f \in {"ok", "write_fails"}}

Init ==
    /\ input_file \in InputFiles
    /\ perm \in Permissions
    /\ fs_log = <<>>
    /\ combo_arg = None /\ mode_arg = None
    /\ req = NoReq
    /\ quality_issues = <<>>
    /\ scores = NoScores
    /\ primary_code = None /\ secondary_code = None
    /\ complexity = None /\ mode = None
    /\ docs = <<>>
    /\ writable_output = <<>>
    /\ gerror = "" /\ gen_stdout = <<>>
    /\ overrides = EmptyDict
    /\ path_choice = None
    /\ flow_req = NoFlowReq
    /\ config = NoConfig
    /\ ferror = "" /\ flow_stdout = <<>>
    /\ \/ /\ args \in GenCommandLines
          /\ gpc = "args"
          /\ flow_args = DefaultFlowArgs
          /\ fpc = "none"
       \/ /\ flow_args \in FlowCommandLines
          /\ fpc = "args"
          /\ args = DefaultArgs
          /\ gpc = "idle"

Next ==
    \/ main_args
    \/ main_load
    \/ main_gate
    \/ main_score
    \/ main_select
    \/ main_complexity
    \/ main_mode
    \/ main_plan
    \/ main_output
    \/ main_write
    \/ flow_start
    \/ flow_load
    \/ flow_ask
    \/ flow_recommend
    \/ flow_recommend_return
    \/ flow_root
    \/ flow_print_only
    \/ flow_summary
    \/ flow_traditional
    \/ flow_vibe
    \/ flow_vibe_return

Spec == Init /\ [][Next]_vars

\* the run has ended / has ended in an error (SystemExit or an exception;
\* for the flow runner, its own exit, not the exit of its subprocess)
RunEnded ==
    IF fpc = "none" THEN gpc \in {"done", "error"} ELSE fpc \in {"done", "error"}

RunFailed == IF fpc = "none" THEN gpc = "error" ELSE fpc = "error"

\* the files written so far that are documents: every written file but the
\* markers of the writability probes
PROBE_MARKERS == {".umx-write-test", ".umx-v3-write-test"}

DocumentsWritten ==
    {i \in 1..Len(fs_log) :
        /\ fs_log[i].op = "write"
        /\ fs_log[i].path[Len(fs_log[i].path)] \notin PROBE_MARKERS}

\* the run is the generator run directly, or the flow runner on its direct
\* or traditional-first route (not its ask or recommend exits)
GatedRun ==
    \/ fpc = "none"
    \/ /\ fpc \notin {"none", "args"}
       /\ path_choice \in {"direct", "traditional-first"}
       /\ Get(overrides, "recommend", <<>>) # <<"1">>

\* C8: in the generator run directly and in the flow runner on its direct and
\* traditional-first routes, when the quality gate reports at least one issue
\* for the loaded requirements and no bypass flag is set, the run ends in an
\* error and no output document has been written at any point of the run.
C8_CallersRefuseOnGateFailure ==
    (GatedRun /\ quality_issues # <<>>) =>
        /\ DocumentsWritten = {}
        /\ RunEnded => RunFailed

\* the forced combo and the forced mode of the run, as texts
ForcedCombo == IF fpc = "none" THEN args.combo ELSE FlowCombo
ForcedMode == IF fpc = "none" THEN args.mode ELSE FlowMode

\* a forced combo or mode outside the enumerated domain (after the
\* generator's strip and lower-case, and its mode aliases)
ForcedOutsideDomain ==
    \/ Token(lower(strip(ForcedCombo))) \notin COMBO_VALUES \cup {"auto"}
    \/ normalize_mode_arg(ForcedMode) \notin MODE_VALUES \cup {"auto"}

\* C10: in the generator run directly and in the flow runner on its direct
\* and traditional-first routes, a forced combo or mode outside the domain is
\* rejected before anything else happens: no requirements loaded or
\* normalized, no combo scored, no file or directory written, and the run
\* ends in an error.
C10_InvalidForcedRejectedFirst ==
    (GatedRun /\ ForcedOutsideDomain) =>
        /\ req = NoReq /\ flow_req = NoFlowReq
        /\ scores = NoScores
        /\ fs_log = <<>>
        /\ RunEnded => RunFailed

(***************************************************************************)
(* SpecPlan: planned_docs on every primary combo and every mode            *)
(***************************************************************************)
InitPlan ==
    /\ Fresh
    /\ gpc = "plan"
    /\ req = DefaultRequirement
    /\ combo_arg = "auto" /\ mode_arg = "auto"
    /\ scores = score_combos(DefaultRequirement)
    /\ primary_code \in COMBO_VALUES
    /\ secondary_code \in (COMBO_VALUES \ {primary_code}) \cup {None}
    /\ complexity \in TIERS
    /\ mode \in MODE_VALUES

SpecPlan == InitPlan /\ [][main_plan]_vars

\* the part of a plan from position a to position b
Part(plan, a, b) == SubSeq(plan, a, b)

\* C11: planned_docs returns, for single-file, exactly the one fixed
\* document; otherwise the 3 baseline documents, the 3 base documents, the 2
\* or 3 documents of the primary combo, then the 5 standard documents iff the
\* mode is standard or full, then the 4 full documents iff the mode is full,
\* in this order: 8-9 entries for minimal, 13-14 for standard, 17-18 for
\* full, no file name twice, the first six entries always the same.
C11_PlanIsOrderedConcatenation ==
    gpc = "output" =>
        IF mode = "single-file"
        THEN docs = <<"00-single-file-pack.md">>
        ELSE LET n == Len(COMBO_MIN_DOCS[primary_code])
                 s == IF mode \in {"standard", "full"} THEN 5 ELSE 0
                 f == IF mode = "full" THEN 4 ELSE 0
             IN /\ n \in {2, 3}
                /\ Len(docs) = 6 + n + s + f
                /\ Part(docs, 1, 6) =
                       <<"00-epic-map.md", "01-feature-story-map.md", "02-core-spec.md",
                         "03-combo-decision.md", "04-milestone-plan.md",
                         "05-ai-prompt-pack.md">>
                /\ Part(docs, 7, 6 + n) = COMBO_MIN_DOCS[primary_code]
                /\ s = 5 => Part(docs, 7 + n, 11 + n) = STANDARD_DOCS
                /\ f = 4 => Part(docs, 12 + n, 15 + n) = FULL_DOCS
                /\ mode = "minimal" => Len(docs) \in {8, 9}
                /\ mode = "standard" => Len(docs) \in {13, 14}
                /\ mode = "full" => Len(docs) \in {17, 18}
                /\ \A i, j \in 1..Len(docs) : i # j => docs[i] # docs[j]

\* the longest plan: a three-document combo in full mode
C11_Witness ==
    gpc = "output" /\ mode = "full" /\ primary_code = "c3" /\ Len(docs) = 18

(***************************************************************************)
(* SpecEngine: the engine steps of main in sequence (score_combos,         *)
(* select_combo, complexity_level, recommend_mode) on requirements whose   *)
(* team size and module count are the values of the documented scenarios   *)
(* (2, 5, 9 and 2, 5, 12), with every other field at every value of its    *)
(* domain, and every forced combo.                                         *)
(***************************************************************************)
EngineRequirements == RequirementsOf({2, 5, 9}, {2, 5, 12})

InitEngine ==
    /\ Fresh
    /\ gpc = "score"
    /\ req \in EngineRequirements
    /\ combo_arg \in {"auto"} \cup COMBO_VALUES
    /\ mode_arg = "auto"
    /\ scores = NoScores
    /\ primary_code = None /\ secondary_code = None
    /\ complexity = None /\ mode = None

NextEngine ==
    \/ main_score
    \/ main_select
    \/ main_complexity
    \/ main_mode

SpecEngine == InitEngine /\ [][NextEngine]_vars

\* select_combo has returned
Selected == gpc \in {"complexity", "mode", "plan"}

\* how far the secondary's score trails the primary's
Margin == scores[primary_code] - scores[secondary_code]

\* C12 (as claimed): with or without a forced combo, the primary is one of
\* the six codes and whenever the secondary is not none,
\* 0 <= score[primary] - score[secondary] <= 2.
C12_SecondaryWithinMargin ==
    Selected =>
        /\ primary_code \in {"c1", "c2", "c3", "c4", "c5", "c6"}
        /\ secondary_code # None => (0 <= Margin /\ Margin <= 2)

\* C12 (amended): the primary is always one of the six codes; without a
\* forced combo, whenever the secondary is not none,
\* 0 <= score[primary] - score[secondary] <= 2. (With a forced combo the
\* secondary is the best-ranked other code whatever the difference is.)
C12_SecondaryWithinMarginUnforced ==
    Selected =>
        /\ primary_code \in {"c1", "c2", "c3", "c4", "c5", "c6"}
        /\ (combo_arg = "auto" /\ secondary_code # None)
              => (0 <= Margin /\ Margin <= 2)

\* no forced combo and a secondary at the edge of the margin
C12_Witness ==
    Selected /\ combo_arg = "auto" /\ secondary_code # None /\ Margin = 2

\* the ranking: the codes by descending score, ties by ascending code,
\* stated by position: the code at rank i has exactly i - 1 codes before it
RankOf(k) ==
    1 + Cardinality({j \in COMBO_VALUES :
                        \/ scores[j] > scores[k]
                        \/ scores[j] = scores[k] /\ CodeRank[j] < CodeRank[k]})

Ranked(i) == CHOOSE k \in COMBO_VALUES : RankOf(k) = i

\* C13: without a forced combo the secondary is the second-ranked code iff
\* score(rank 1) - score(rank 2) <= 2, otherwise none; with a valid forced
\* combo the secondary is the top-ranked code when that differs from the
\* forced code, otherwise the second-ranked code; in both cases the
\* secondary, when present, differs from the primary.
C13_SecondaryRule ==
    Selected =>
        /\ combo_arg = "auto" =>
              secondary_code = IF scores[Ranked(1)] - scores[Ranked(2)] <= 2
                               THEN Ranked(2) ELSE None
        /\ combo_arg \in COMBO_VALUES =>
              secondary_code = IF Ranked(1) # combo_arg THEN Ranked(1)
                               ELSE Ranked(2)
        /\ secondary_code # None => secondary_code # primary_code

\* a forced combo that is itself top-ranked: the secondary is the
\* second-ranked code, more than 2 behind
C13_Witness ==
    /\ Selected
    /\ combo_arg \in COMBO_VALUES /\ Ranked(1) = combo_arg
    /\ secondary_code = Ranked(2)
    /\ scores[Ranked(1)] - scores[Ranked(2)] > 2

\* recommend_mode has returned: scores, selection, tier and mode are known
Resolved == gpc = "plan"

\* the fields scenario 1 fixes
Scenario1(r) ==
    /\ r.team_size = 2 /\ r.module_count = 2
    /\ r.need_fast_validation = TRUE
    /\ r.design_source = "none"
    /\ r.domain_complexity = "low" /\ r.compliance_level = "low"

\* C14: scenario 1 (team_size 2, module_count 2, fast validation, no design
\* source, low domain complexity, low compliance, any ui_priority,
\* backend_complexity, separation and iteration_speed, nothing forced): the
\* tier is S, the automatic mode is minimal and the primary combo is c1.
C14_Scenario1 ==
    (Resolved /\ combo_arg = "auto" /\ mode_arg = "auto" /\ Scenario1(req))
        => /\ complexity = "S"
           /\ mode = "minimal"
           /\ primary_code = "c1"

\* the closest case of scenario 1: fast iteration ties c5 with c1 at the
\* top, and the heaviest backend and separation keep the tier at S
C14_Witness ==
    /\ Resolved /\ combo_arg = "auto" /\ Scenario1(req)
    /\ req.iteration_speed = "fast"
    /\ req.backend_complexity = "high" /\ req.frontend_backend_separation
    /\ scores["c5"] = scores["c1"]
    /\ primary_code = "c1" /\ complexity = "S" /\ mode = "minimal"

\* the requirement of scenario 2: the fields scenario 1 fixes, except
\* module_count, with the three changes
Scenario2(r) ==
    /\ r.team_size = 2
    /\ r.need_fast_validation = TRUE
    /\ r.design_source = "none"
    /\ r.domain_complexity = "low" /\ r.compliance_level = "low"
    /\ r.frontend_backend_separation = TRUE
    /\ r.backend_complexity = "high"
    /\ r.module_count = 5

\* the scenario-1 requirements that r was changed from
Scenario1Origins(r) ==
    {[r EXCEPT !.module_count = 2, !.backend_complexity = b,
               !.frontend_backend_separation = s] :
        b \in LEVELS, s \in BOOLEAN}

\* C15: scenario 2 (the scenario-1 requirement with separation true,
\* backend_complexity high and module_count 5, nothing forced): the primary
\* combo is c3 and the tier is at least one band above the tier of the
\* scenario-1 requirement.
C15_Scenario2 ==
    (Resolved /\ combo_arg = "auto" /\ mode_arg = "auto" /\ Scenario2(req))
        => /\ primary_code = "c3"
           /\ \A r1 \in Scenario1Origins(req) :
                 TierRank[complexity] >= TierRank[complexity_level(r1)] + 1

\* complexity_level has returned
Classified == gpc \in {"mode", "plan"}

\* the fields scenario 3 fixes
Scenario3(r) ==
    /\ r.domain_complexity = "high" /\ r.compliance_level = "high"
    /\ r.team_size = 9 /\ r.module_count = 12

\* C16 (as claimed): every requirement of scenario 3 (domain_complexity
\* high, compliance_level high, team_size 9, module_count 12) has tier XL,
\* whatever backend_complexity, separation and the remaining fields are.
C16_Scenario3TierXL ==
    (Classified /\ Scenario3(req)) => complexity = "XL"

\* C16 (amended): a requirement of scenario 3 has tier XL whenever its
\* backend_complexity is at least medium (the normalizer default) or its
\* frontend and backend are separated; with backend_complexity low and no
\* separation the total is 10 and the tier is L.
C16_Scenario3TierXLAboveFloor ==
    (Classified /\ Scenario3(req)) =>
        complexity = IF req.backend_complexity = "low"
                        /\ ~req.frontend_backend_separation
                     THEN "L" ELSE "XL"

\* scenario 3 at the normalizer defaults of the two fields: total 11
C16_Witness ==
    /\ Classified /\ Scenario3(req)
    /\ req.backend_complexity = "medium" /\ ~req.frontend_backend_separation
    /\ complexity = "XL"

\* C17: for every requirement of scenario 3 and no forced mode, the mode
\* obtained by classifying the requirement and then resolving the mode is
\* full, for both values of need_fast_validation and whatever the remaining
\* fields are.
C17_Scenario3ModeFull ==
    (Resolved /\ mode_arg = "auto" /\ Scenario3(req)) => mode = "full"

\* scenario 3 below XL with fast validation asked for: full all the same
C17_Witness ==
    /\ Resolved /\ mode_arg = "auto" /\ Scenario3(req)
    /\ req.need_fast_validation /\ complexity = "L"
    /\ mode = "full"

\* the command of the run is the recommend command
RecommendCommand == Get(parse_command(flow_args.command), "recommend", <<>>) = <<"1">>

\* C18: when the command given to the flow runner is the recommend command,
\* the run shows the recommendation only: it invokes the generator in
\* print-only mode with combo auto and the mode of the run, prints that
\* report and writes no file, whatever the other arguments (--path
\* included) are.
C18_RecommendShowsRecommendation ==
    (fpc # "none" /\ RecommendCommand) =>
        /\ fs_log = <<>>
        /\ fpc = "done" =>
              /\ gpc = "done"
              /\ args.print_only
              /\ args.combo = ArgText["auto"]
              /\ args.mode = FlowMode
              /\ flow_stdout = <<"report">>

\* the run was started with --print-only
PrintOnlyRun == IF fpc = "none" THEN args.print_only ELSE flow_args.print_only

\* C19: with --print-only a run writes nothing to the filesystem: in the
\* generator and in the flow runner (direct and traditional-first routes,
\* requested output root writable or not) no directory is created, no probe
\* marker is written and no document is written at any point of the run.
C19_PrintOnlyWritesNothing ==
    (GatedRun /\ PrintOnlyRun) => fs_log = <<>>

(***************************************************************************)
(* SpecOutput: whole runs of the two scripts on a valid input file, with   *)
(* the requested root and both fallback roots in every state               *)
(***************************************************************************)
OutputPermissions ==
    {[r \in ROOTS |-> CASE r = REQUESTED -> q
                        [] r = GEN_FALLBACK -> g
                        [] r = FLOW_FALLBACK -> f
                        [] OTHER -> "ok"] :
        q \in PERMS, g \in PERMS, f \in PERMS}

OutputGenCommandLines ==
    {Args(<<"a","u","t","o">>, m, p, f, FALSE, <<REQUESTED>>) :
        m \in {<<"a","u","t","o">>, <<"s","i","n","g","l","e">>}, p \in BOOLEAN, f \in BOOLEAN}

OutputFlowCommandLines ==
    {FlowArgs(<<REQUESTED>>, PathText[p], DefaultFlowArgs.traditional_docs,
              <<"a","u","t","o">>, <<"m","i","n","i","m","a","l">>, cmd, po) :
        p \in VALID_PATHS,
        cmd \in {<<>>, <<<<"/","u","m","x">>, <<"r","e","c","o","m","m","e","n","d">>>>},
        po \in BOOLEAN}

InitOutput ==
    /\ input_file = GOOD_FILE
    /\ perm \in OutputPermissions
    /\ fs_log = <<>>
    /\ combo_arg = None /\ mode_arg = None
    /\ req = NoReq
    /\ quality_issues = <<>>
    /\ scores = NoScores
    /\ primary_code = None /\ secondary_code = None
    /\ complexity = None /\ mode = None
    /\ docs = <<>>
    /\ writable_output = <<>>
    /\ gerror = "" /\ gen_stdout = <<>>
    /\ overrides = EmptyDict
    /\ path_choice = None
    /\ flow_req = NoFlowReq
    /\ config = NoConfig
    /\ ferror = "" /\ flow_stdout = <<>>
    /\ \/ /\ args \in OutputGenCommandLines
          /\ gpc = "args"
          /\ flow_args = DefaultFlowArgs
          /\ fpc = "none"
       \/ /\ flow_args \in OutputFlowCommandLines
          /\ fpc = "args"
          /\ args = DefaultArgs
          /\ gpc = "idle"

SpecOutput == InitOutput /\ [][Next]_vars

\* the folder a path lies in
Folder(path) == SubSeq(path, 1, Len(path) - 1)

\* the marker files written so far
MarkersWritten ==
    {i \in 1..Len(fs_log) :
        /\ fs_log[i].op = "write"
        /\ fs_log[i].path[Len(fs_log[i].path)] \in PROBE_MARKERS}

\* a marker file remains in the folder: written and not removed since
MarkerRemains(folder) ==
    \E i \in MarkersWritten :
        /\ Folder(fs_log[i].path) = folder
        /\ ~ \E k \in (i + 1)..Len(fs_log) :
                fs_log[k] = FsOp("unlink", fs_log[i].path)

\* before position i, a marker was written to a folder the path lies under
\* and then removed
ProbedBefore(path, i) ==
    \E j \in MarkersWritten, k \in 1..Len(fs_log) :
        /\ j < k /\ k < i
        /\ fs_log[k] = FsOp("unlink", fs_log[j].path)
        /\ Len(Folder(fs_log[j].path)) <= Len(path)
        /\ SubSeq(path, 1, Len(Folder(fs_log[j].path))) = Folder(fs_log[j].path)

FALLBACK_ROOTS == {GEN_FALLBACK, FLOW_FALLBACK}

\* what one resolution owes: `requested` and `fallback` are the two
\* candidates, `returned` the root it returned (<<>> for none), `failed`
\* whether it ended the run
ResolutionRule(requested, fallback, returned, failed) ==
    /\ returned \in {<<>>, requested, fallback}
    /\ perm[requested[1]] = "ok" => (returned = requested /\ ~failed)
    /\ returned = fallback =>
          /\ perm[requested[1]] # "ok"
          /\ perm[fallback[1]] = "ok"
    /\ failed <=> (perm[requested[1]] # "ok" /\ perm[fallback[1]] # "ok")
    /\ failed => (returned = <<>> /\ RunFailed /\ DocumentsWritten = {})
    /\ returned # <<>> => ~MarkerRemains(returned)

\* C20: output-root resolution in both scripts tries the requested root
\* first and the fixed fallback second; for each it writes and then removes
\* a marker before any document is written. The requested root is returned
\* whenever its probe succeeds, the fallback only after the requested root
\* failed, the run is fatal with no document written when both fail, and a
\* returned root holds no marker file.
C20_OutputRootResolution ==
    /\ (gpc = "write" \/ (gpc = "done" /\ ~args.print_only)
          \/ gerror = "Unable to write output folder")
         => ResolutionRule(args.output, <<GEN_FALLBACK>>, writable_output,
                           gerror = "Unable to write output folder")
    /\ (config # NoConfig \/ ferror = "Unable to write output folder.")
         => ResolutionRule(OutputRoot(overrides, flow_args), <<FLOW_FALLBACK>>,
                           config.output_root,
                           ferror = "Unable to write output folder.")
    /\ \A i \in DocumentsWritten : ProbedBefore(fs_log[i].path, i)
    /\ \A i, j \in 1..Len(fs_log) :
          (i < j /\ fs_log[i].path[1] \in FALLBACK_ROOTS)
             => fs_log[j].path[1] \in FALLBACK_ROOTS

\* the requested root took the marker but would not let it go: the
\* generator fell back, and its documents are in the fallback root
C20_Witness ==
    /\ fpc = "none" /\ gpc = "done"
    /\ perm[REQUESTED] = "unlink_fails"
    /\ writable_output = <<GEN_FALLBACK>>
    /\ MarkerRemains(<<REQUESTED>>)
    /\ DocumentsWritten # {}

====
